---- MODULE Spec2Model ----
(***************************************************************************)
(* Model of reposter.py, the reposter/splitter service for the SendGrid    *)
(* Event API: one Uploader per configured deployment, an EventDispatcher   *)
(* that routes events by unique_args.deployment, and the handlers the      *)
(* Twisted reactor runs one at a time: render_POST, the 5 second           *)
(* LoopingCall of dispatch, and the callback / errback of each Deferred    *)
(* returned by getPage.                                                    *)
(*                                                                         *)
(* A Python object is a record whose DOMAIN is the set of attributes it    *)
(* has; a dict is a function on its keys.  An event carries an id so that  *)
(* two events can be told apart; the program never reads it.               *)
(***************************************************************************)
EXTENDS Integers, Sequences, FiniteSets, TLC

\* uploaders  EventDispatcher.uploaders: name -> Uploader (reposter.py 85-87)
\* requests   per uploader, the calls of getPage made by run, each with the
\*            state of its Deferred: pending, ok or error (64-69)
\* enqueued   per uploader, the events passed to Uploader.append, in order (54-55)
\* rejected   the events on which add_event raised KeyError (93)
\* failures   how many Deferreds have failed so far (76)
\* next_id    the id of the next event to arrive (113)
\* order      the order in which self.uploaders.values() yields the uploaders (98)
\* looping    whether the LoopingCall of dispatch is still running (121)
VARIABLES uploaders, requests, enqueued, rejected, failures, next_id, order, looping

vars == <<uploaders, requests, enqueued, rejected, failures, next_id, order, looping>>

\* ---- bounds ----
MaxEvents == 3
MaxBatch == 2
MaxFailures == 1

\* ---- Python values ----
None == 0

Get(d, k, default) == IF k \in DOMAIN d THEN d[k] ELSE default

SetAttr(obj, attr, v) == [k \in DOMAIN obj \cup {attr} |-> IF k = attr THEN v ELSE obj[k]]

HasAttr(obj, attr) == attr \in DOMAIN obj

IsPrefix(s, t) == Len(s) <= Len(t) /\ SubSeq(t, 1, Len(s)) = s

Range(s) == {s[i] : i \in DOMAIN s}

\* ---- settings.DEPLOYMENT_URLS: the configurations explored ----
\* The last one holds a URL that getPage refuses when it is called (an https
\* URL where no SSL library is installed, a URL of the wrong string type):
\* getPage then raises instead of returning a Deferred.
Configs ==
  { [a |-> "http://a.example/hook", DEFAULT |-> "http://default.example/hook"],
    [a |-> "http://a.example/hook", b |-> "http://b.example/hook"],
    [a |-> "http://a.example/hook", b |-> "https://b.example/hook"] }

RefusedUrls == {"https://b.example/hook"}

AllNames == UNION {DOMAIN urls : urls \in Configs}

\* The orders in which a dict with these keys may yield its values.  The dict
\* is never modified, so the order is fixed at start; only a dispatch that is
\* cut short by an exception depends on it, so one order is kept where no URL
\* is refused.
RECURSIVE keys(_)
keys(S) == IF S = {} THEN <<>> ELSE LET k == CHOOSE k \in S : TRUE IN <<k>> \o keys(S \ {k})

Orders(urls) ==
  IF \E name \in DOMAIN urls : urls[name] \in RefusedUrls
  THEN {s \in [1..Cardinality(DOMAIN urls) -> DOMAIN urls] : Range(s) = DOMAIN urls}
  ELSE {keys(DOMAIN urls)}

values(w) == w.order

\* ---- inbound events ----
Shapes == {"a", "b", "no_unique_args", "no_deployment"}

Event(id, shape) ==
  LET base == [id |-> id, event |-> "open", email |-> "x@y.com"]
  IN  CASE shape = "no_unique_args" -> base
        [] shape = "no_deployment"  -> SetAttr(base, "unique_args", [campaign |-> "c"])
        [] OTHER                    -> SetAttr(base, "unique_args", [deployment |-> shape])

\* The decoded bodies of an inbound POST of n events, numbered from first.
Bodies(first, n) == { [k \in 1..n |-> Event(first + k - 1, sh[k])] : sh \in [1..n -> Shapes] }

\* ---- class Uploader ----
Uploader(name, url) == [name |-> name, url |-> url, deferred |-> None, queue |-> <<>>]

\* append, had it added to the batch of the attempt in flight.
append_into_batch(self, event) ==
  IF self.deferred # None
  THEN [self EXCEPT !.events_being_sent = Append(@, event)]
  ELSE [self EXCEPT !.queue = Append(@, event)]

\* append, had it inserted at the head.
append_at_head(self, event) == [self EXCEPT !.queue = <<event>> \o @]

append(self, event) == [self EXCEPT !.queue = Append(@, event)]

json_dumps(events) == [json |-> events]

\* getPage starts the request and returns its Deferred, or raises at once.
getPage_raises(url) == url \in RefusedUrls

\* getPage, had the Deferred it returns already failed.
getPage_failed_at_once(url, postdata) ==
  [url |-> url, method |-> "POST", postdata |-> postdata, result |-> "error", called |-> <<>>]

getPage(url, postdata) ==
  [url |-> url, method |-> "POST", postdata |-> postdata, result |-> "pending",
   called |-> <<>>]

\* run, had it not looked at self.deferred.
run_without_deferred_check(w, name) ==
  LET self == w.uploaders[name]
  IN  IF Len(self.queue) = 0
      THEN w
      ELSE LET u1 == SetAttr(self, "events_being_sent", self.queue)
               u2 == [u1 EXCEPT !.queue = <<>>]
               reqs == Append(w.requests[name],
                              getPage(u2.url, json_dumps(u2.events_being_sent)))
               u3 == [u2 EXCEPT !.deferred = Len(reqs)]
           IN  IF getPage_raises(u2.url)
               THEN [w EXCEPT !.uploaders[name] = u2, !.raised = "getPage"]
               ELSE [w EXCEPT !.uploaders[name] = u3, !.requests[name] = reqs]

\* run, had it not tested for an empty queue.
run_without_empty_check(w, name) ==
  LET self == w.uploaders[name]
  IN  IF self.deferred # None
      THEN w
      ELSE LET u1 == SetAttr(self, "events_being_sent", self.queue)
               u2 == [u1 EXCEPT !.queue = <<>>]
               reqs == Append(w.requests[name],
                              getPage(u2.url, json_dumps(u2.events_being_sent)))
               u3 == [u2 EXCEPT !.deferred = Len(reqs)]
           IN  IF getPage_raises(u2.url)
               THEN [w EXCEPT !.uploaders[name] = u2, !.raised = "getPage"]
               ELSE [w EXCEPT !.uploaders[name] = u3, !.requests[name] = reqs]

\* run, had it left the queue as it was.
run_keeping_queue(w, name) ==
  LET self == w.uploaders[name]
  IN  IF self.deferred # None \/ Len(self.queue) = 0
      THEN w
      ELSE LET u1 == SetAttr(self, "events_being_sent", self.queue)
               reqs == Append(w.requests[name],
                              getPage(u1.url, json_dumps(u1.events_being_sent)))
               u3 == [u1 EXCEPT !.deferred = Len(reqs)]
           IN  IF getPage_raises(u1.url)
               THEN [w EXCEPT !.uploaders[name] = u1, !.raised = "getPage"]
               ELSE [w EXCEPT !.uploaders[name] = u3, !.requests[name] = reqs]

\* deferred_callback, had it put the batch back as deferred_errback does.
deferred_callback_requeueing(w, name) ==
  LET self == w.uploaders[name]
  IN  [w EXCEPT !.uploaders[name] =
         [self EXCEPT !.queue = self.events_being_sent \o self.queue,
                      !.events_being_sent = <<>>,
                      !.deferred = None]]

\* w is the world a handler acts on: the dispatcher's uploaders, the calls
\* each uploader has made to getPage so far (a Deferred is the position of
\* its call there), the history of Uploader.append, the events on which
\* add_event raised, the order of the uploaders, and the exception being
\* raised, if any.  run moves the queue before it calls getPage, so a getPage
\* that raises leaves the batch in events_being_sent with no Deferred.
run(w, name) ==
  LET self == w.uploaders[name]
  IN  IF self.deferred # None \/ Len(self.queue) = 0
      THEN w
      ELSE LET u1 == SetAttr(self, "events_being_sent", self.queue)
               u2 == [u1 EXCEPT !.queue = <<>>]
               reqs == Append(w.requests[name],
                              getPage(u2.url, json_dumps(u2.events_being_sent)))
               u3 == [u2 EXCEPT !.deferred = Len(reqs)]
           IN  IF getPage_raises(u2.url)
               THEN [w EXCEPT !.uploaders[name] = u2, !.raised = "getPage"]
               ELSE [w EXCEPT !.uploaders[name] = u3, !.requests[name] = reqs]

deferred_callback(w, name) ==
  LET self == w.uploaders[name]
  IN  [w EXCEPT !.uploaders[name] =
         [self EXCEPT !.events_being_sent = <<>>, !.deferred = None]]

\* deferred_errback, had it not thrown the events back into the queue.
deferred_errback_dropping(w, name) ==
  [w EXCEPT !.uploaders[name].deferred = None]

\* deferred_errback, had it put the events behind the queue.
deferred_errback_at_back(w, name) ==
  LET self == w.uploaders[name]
  IN  [w EXCEPT !.uploaders[name] =
         [self EXCEPT !.queue = self.queue \o self.events_being_sent,
                      !.deferred = None]]

deferred_errback(w, name) ==
  LET self == w.uploaders[name]
  IN  [w EXCEPT !.uploaders[name] =
         [self EXCEPT !.queue = self.events_being_sent \o self.queue,
                      !.deferred = None]]

\* ---- the Deferred that getPage returns ----
\* addCallback(f) adds the pair (f, pass through) to the chain of the Deferred
\* and addErrback(f) the pair (pass through, f).
addCallback(chain, f) == Append(chain, [callback |-> f, errback |-> "passthru"])

addErrback(chain, f) == Append(chain, [callback |-> "passthru", errback |-> f])

\* The chain of run, had it called addErrback before addCallback.
callbacks_errback_first ==
  addCallback(addErrback(<<>>, "deferred_errback"), "deferred_callback")

\* The chain run attaches to the Deferred.
callbacks == addErrback(addCallback(<<>>, "deferred_callback"), "deferred_errback")

\* The handlers a Deferred calls, in order, when it fires with an outcome: of
\* each pair the callback on a success and the errback on a failure; both
\* handlers of the uploader return None, and after a handler that returns the
\* Deferred carries a success.
RECURSIVE runCallbacks(_, _)
runCallbacks(chain, outcome) ==
  IF chain = <<>> THEN <<>>
  ELSE LET f == IF outcome = "ok" THEN Head(chain).callback ELSE Head(chain).errback
       IN  IF f = "passthru"
           THEN runCallbacks(Tail(chain), outcome)
           ELSE <<f>> \o runCallbacks(Tail(chain), "ok")

RECURSIVE call_all(_, _, _)
call_all(w, name, fs) ==
  IF fs = <<>> THEN w
  ELSE call_all(IF Head(fs) = "deferred_callback"
                THEN deferred_callback(w, name)
                ELSE deferred_errback(w, name),
                name, Tail(fs))

\* Request i of the uploader ends with the outcome and its Deferred fires; the
\* request keeps the list of the handlers that were called.
fire(w, name, i, outcome) ==
  LET fs == runCallbacks(callbacks, outcome)
  IN  call_all([w EXCEPT !.requests[name][i].result = outcome,
                         !.requests[name][i].called = fs],
               name, fs)

\* ---- class EventDispatcher ----
EventDispatcher(urls) == [name \in DOMAIN urls |-> Uploader(name, urls[name])]

\* get_uploader_name, had its fallback been the deployment 'a'.
get_uploader_name_falling_back_to_a(event) ==
  Get(Get(event, "unique_args", <<>>), "deployment", "a")

get_uploader_name(event) ==
  Get(Get(event, "unique_args", <<>>), "deployment", "DEFAULT")

\* add_event, had it sent the events of unknown deployments to some uploader.
add_event_catch_all(w, event) ==
  LET wanted == get_uploader_name(event)
      name == IF wanted \in DOMAIN w.uploaders THEN wanted
              ELSE CHOOSE n \in DOMAIN w.uploaders : TRUE
  IN  [w EXCEPT !.uploaders[name] = append(w.uploaders[name], event),
                !.enqueued[name] = Append(@, event)]

add_event(w, event) ==
  LET name == get_uploader_name(event)
  IN  IF name \notin DOMAIN w.uploaders
      THEN [w EXCEPT !.raised = "KeyError", !.rejected = @ \cup {event}]
      ELSE [w EXCEPT !.uploaders[name] = append(w.uploaders[name], event),
                     !.enqueued[name] = Append(@, event)]

RECURSIVE run_all(_, _)
run_all(w, names) ==
  IF names = <<>> \/ w.raised # "None"
  THEN w
  ELSE run_all(run(w, Head(names)), Tail(names))

\* dispatch, had it stopped after the first uploader.
dispatch_first_only(w) == run(w, Head(values(w)))

dispatch(w) == run_all(w, values(w))

\* ---- class EventHandler ----
RECURSIVE add_all(_, _)
add_all(w, events) ==
  IF events = <<>> \/ w.raised # "None"
  THEN w
  ELSE add_all(add_event(w, Head(events)), Tail(events))

render_POST(w, body) ==
  LET w1 == add_all(w, body)
  IN  IF w1.raised # "None" THEN w1 ELSE dispatch(w1)

\* ---- the reactor ----
World == [uploaders |-> uploaders, requests |-> requests, enqueued |-> enqueued,
          rejected |-> rejected, order |-> order, raised |-> "None"]

\* The handler's result is computed once and becomes the next state.
Commit(result) ==
  \E w \in {result} :
     /\ uploaders' = w.uploaders
     /\ requests' = w.requests
     /\ enqueued' = w.enqueued
     /\ rejected' = w.rejected

Init ==
  /\ \E urls \in Configs :
       /\ uploaders = EventDispatcher(urls)
       /\ enqueued = [name \in DOMAIN urls |-> <<>>]
       /\ requests = [name \in DOMAIN urls |-> <<>>]
       /\ order \in Orders(urls)
  /\ looping = TRUE
  /\ failures = 0
  /\ next_id = 1
  /\ rejected = {}

HandlePOST ==
  \E n \in 0..MaxBatch :
    /\ next_id + n - 1 <= MaxEvents
    /\ \E body \in Bodies(next_id, n) :
         Commit(render_POST(World, body))
    /\ next_id' = next_id + n
    /\ UNCHANGED <<failures, order, looping>>

\* A LoopingCall stops for good when the function it calls raises.
LoopingCall ==
  /\ looping
  /\ \E w \in {dispatch(World)} :
        /\ Commit(w)
        /\ looping' = (w.raised = "None")
  /\ UNCHANGED <<failures, next_id, order>>

Success(name, i) ==
  /\ requests[name][i].result = "pending"
  /\ Commit(fire(World, name, i, "ok"))
  /\ UNCHANGED <<failures, next_id, order, looping>>

Failure(name, i) ==
  /\ requests[name][i].result = "pending"
  /\ failures < MaxFailures
  /\ Commit(fire(World, name, i, "error"))
  /\ failures' = failures + 1
  /\ UNCHANGED <<next_id, order, looping>>

Next ==
  \/ HandlePOST
  \/ LoopingCall
  \/ \E name \in DOMAIN requests : \E i \in DOMAIN requests[name] : Success(name, i)
  \/ \E name \in DOMAIN requests : \E i \in DOMAIN requests[name] : Failure(name, i)

Spec == Init /\ [][Next]_vars

\* Fairness for the liveness claims: the LoopingCall keeps firing, and every
\* Deferred of getPage fires in the end.  Failure is possible MaxFailures
\* times only, so no destination fails forever.
Complete(name) ==
  /\ name \in DOMAIN requests
  /\ \E i \in DOMAIN requests[name] : Success(name, i) \/ Failure(name, i)

FairSpec ==
  /\ Spec
  /\ WF_vars(LoopingCall)
  /\ \A name \in AllNames : WF_vars(Complete(name))

\* ---- what the claims speak about ----
Names == DOMAIN uploaders

queue(name) == uploaders[name].queue

\* The attribute events_being_sent does not exist before the first run.
events_being_sent(name) ==
  IF HasAttr(uploaders[name], "events_being_sent")
  THEN uploaders[name].events_being_sent
  ELSE <<>>

Body(r) == r.postdata.json

\* The attempts of an uploader that have neither succeeded nor failed.
Outstanding(name) == {i \in DOMAIN requests[name] : requests[name][i].result = "pending"}

\* The bodies of the POSTs the destination answered, one after the other.
RECURSIVE DeliveredOf(_)
DeliveredOf(reqs) ==
  IF reqs = <<>> THEN <<>>
  ELSE (IF Head(reqs).result = "ok" THEN Body(Head(reqs)) ELSE <<>>) \o DeliveredOf(Tail(reqs))

Delivered(name) == DeliveredOf(requests[name])

\* The batch of the attempt in flight, empty when there is none.
InFlight(name) ==
  IF uploaders[name].deferred # None THEN events_being_sent(name) ELSE <<>>

Tagged(e) == HasAttr(e, "unique_args") /\ HasAttr(e.unique_args, "deployment")

\* C1. No loss: every event that was enqueued for a destination is in its
\* queue, in events_being_sent, or in a batch the destination has answered.
C1_NoLoss ==
  \A name \in Names : \A k \in DOMAIN enqueued[name] :
     enqueued[name][k] \in Range(queue(name)) \cup Range(events_being_sent(name))
                           \cup Range(Delivered(name))

\* C2. At most one in flight: a destination never has two attempts
\* outstanding, and run on an uploader with an attempt outstanding changes
\* nothing: not the queue, not events_being_sent, and no call to getPage.
C2_AtMostOneInFlight ==
  \A name \in Names :
     /\ Cardinality(Outstanding(name)) <= 1
     /\ (Outstanding(name) # {} => run(World, name) = World)

\* An attempt is outstanding while events wait in the queue, and every POST
\* so far ended in dispatch: run was called on this uploader in this state.
C2_Witness ==
  /\ rejected = {}
  /\ \E name \in Names : Outstanding(name) # {} /\ queue(name) # <<>>

\* C3. Retry ordering: the step in which an attempt fails puts the batch that
\* was sent in front of the queue, in its order; and the attempt that follows
\* a failed one sends a batch that starts with the failed batch.
FailedBatchRequeuedAtFront ==
  \A name \in Names : \A i \in DOMAIN requests[name] :
     (requests[name][i].result = "pending" /\ requests'[name][i].result = "error")
        => uploaders'[name].queue = Body(requests[name][i]) \o uploaders[name].queue

RetrySendsFailedBatchFirst ==
  \A name \in Names : \A i \in DOMAIN requests[name] :
     (requests[name][i].result = "error" /\ i + 1 \in DOMAIN requests[name])
        => IsPrefix(Body(requests[name][i]), Body(requests[name][i + 1]))

C3_RetryOrdering == [][FailedBatchRequeuedAtFront]_vars /\ []RetrySendsFailedBatchFirst

\* enqueue(A), enqueue(B), flush, failure, enqueue(C), flush.
C3_Witness ==
  \E name \in Names : \E i \in DOMAIN requests[name] :
     /\ requests[name][i].result = "error"
     /\ Len(Body(requests[name][i])) = 2
     /\ i + 1 \in DOMAIN requests[name]
     /\ Len(Body(requests[name][i + 1])) = 3

\* C4. Strict FIFO per destination: the batches a destination has answered,
\* one after the other, are a prefix of the events enqueued for it.
C4_StrictFIFO ==
  \A name \in Names : IsPrefix(Delivered(name), enqueued[name])

\* Two batches were delivered to a destination after a failure.
C4_Witness ==
  \E name \in Names :
     /\ \E i \in DOMAIN requests[name] : requests[name][i].result = "error"
     /\ Cardinality({i \in DOMAIN requests[name] : requests[name][i].result = "ok"}) >= 2

\* C5. Exclusive residence: an enqueued event that has not been delivered is
\* in exactly one of queue and events_being_sent, and once the errback of an
\* uploader has run events_being_sent is empty.
C5_ExclusiveResidence ==
  \A name \in Names :
     /\ Range(queue(name)) \cap Range(events_being_sent(name)) = {}
     /\ \A k \in DOMAIN enqueued[name] :
          enqueued[name][k] \notin Range(Delivered(name))
            => enqueued[name][k] \in Range(queue(name)) \cup Range(events_being_sent(name))
     /\ (requests[name] # <<>> /\ uploaders[name].deferred = None
           /\ requests[name][Len(requests[name])].result = "error")
          => events_being_sent(name) = <<>>

\* C6. Eventual delivery: with the LoopingCall firing and every attempt
\* completing, every event enqueued for a destination that getPage accepts is
\* in the end in a batch the destination has answered; and wherever the queue
\* of such a destination holds events with no attempt in flight (as after a
\* failure) the next dispatch posts that queue.
Accepted(name) == ~getPage_raises(uploaders[name].url)

EnqueuedId(id) ==
  \E name \in Names :
     Accepted(name) /\ \E k \in DOMAIN enqueued[name] : enqueued[name][k].id = id

DeliveredId(id) == \E name \in Names : \E e \in Range(Delivered(name)) : e.id = id

NextDispatchRetries ==
  \A name \in Names :
     (Accepted(name) /\ uploaders[name].deferred = None /\ queue(name) # <<>>)
        => LET w == dispatch(World)
           IN  /\ Len(w.requests[name]) = Len(requests[name]) + 1
               /\ Body(w.requests[name][Len(w.requests[name])]) = queue(name)
               /\ w.requests[name][Len(w.requests[name])].result = "pending"

C6_EventualDelivery ==
  /\ \A id \in 1..MaxEvents : EnqueuedId(id) ~> DeliveredId(id)
  /\ []NextDispatchRetries

\* C7. Default routing: an event without unique_args, or whose unique_args
\* has no deployment, resolves to DEFAULT; add_event appends it to the queue
\* of the DEFAULT uploader, and such an event is enqueued nowhere else.
C7_DefaultRouting ==
  /\ \A name \in Names : \A k \in DOMAIN enqueued[name] :
        ~Tagged(enqueued[name][k]) => name = "DEFAULT"
  /\ \A shape \in {"no_unique_args", "no_deployment"} :
        LET e == Event(next_id, shape)
        IN  /\ get_uploader_name(e) = "DEFAULT"
            /\ "DEFAULT" \in Names =>
                 add_event(World, e).uploaders =
                    [uploaders EXCEPT !["DEFAULT"].queue = Append(@, e)]

\* Both kinds of untagged event were enqueued for DEFAULT.
C7_Witness ==
  /\ "DEFAULT" \in Names
  /\ \E e1, e2 \in Range(enqueued["DEFAULT"]) :
        /\ ~HasAttr(e1, "unique_args")
        /\ HasAttr(e2, "unique_args") /\ ~HasAttr(e2.unique_args, "deployment")

\* C8. Tag routing: add_event of an event whose deployment is configured
\* appends it at the tail of that uploader's queue and changes no other
\* uploader and no request; the queue is the tail of what was enqueued for the
\* uploader; every batch that carries a tagged event was posted to the URL of
\* the event's deployment.
C8_TagRouting ==
  /\ \A shape \in Shapes :
        LET e == Event(next_id, shape)
        IN  (Tagged(e) /\ e.unique_args.deployment \in Names) =>
               LET d == e.unique_args.deployment
                   w == add_event(World, e)
               IN  /\ w.uploaders = [uploaders EXCEPT ![d].queue = Append(@, e)]
                   /\ w.requests = requests
                   /\ w.raised = "None"
  /\ \A name \in Names :
        /\ \A k \in DOMAIN enqueued[name] :
              Tagged(enqueued[name][k]) => enqueued[name][k].unique_args.deployment = name
        /\ IsPrefix(queue(name),
                    SubSeq(enqueued[name], Len(enqueued[name]) - Len(queue(name)) + 1,
                           Len(enqueued[name])))
        /\ \A i \in DOMAIN requests[name] : \A e \in Range(Body(requests[name][i])) :
              Tagged(e) => requests[name][i].url = uploaders[e.unique_args.deployment].url

\* Tagged events of two deployments are in flight, each to its own URL, and
\* another was enqueued behind one of them.
C8_Witness ==
  /\ "b" \in Names
  /\ \A name \in Names : Outstanding(name) # {} /\ Len(InFlight(name)) >= 1
  /\ \E name \in Names : queue(name) # <<>>

\* C9. Routing error: add_event of an event whose uploader name is not
\* configured raises KeyError, which render_POST does not handle, and changes
\* no uploader and no request; such an event is never in a queue, a batch or a
\* request, and no event is enqueued for another uploader than its own.
C9_RoutingError ==
  /\ \A e \in rejected :
        /\ get_uploader_name(e) \notin Names
        /\ \A name \in Names :
              /\ e \notin Range(enqueued[name]) \cup Range(queue(name))
                             \cup Range(events_being_sent(name))
              /\ \A i \in DOMAIN requests[name] : e \notin Range(Body(requests[name][i]))
  /\ \A name \in Names : \A k \in DOMAIN enqueued[name] :
        get_uploader_name(enqueued[name][k]) = name
  /\ \A shape \in Shapes :
        LET e == Event(next_id, shape)
        IN  get_uploader_name(e) \notin Names =>
               /\ add_event(World, e).raised = "KeyError"
               /\ add_event(World, e).uploaders = uploaders
               /\ add_event(World, e).requests = requests
               /\ render_POST(World, <<e>>).raised = "KeyError"

\* An event was refused while other events had been accepted.
C9_Witness ==
  /\ rejected # {}
  /\ \E name \in Names : enqueued[name] # <<>>

\* C10, as amended. Intake-triggered dispatch: a render_POST that returns OK
\* ends with every uploader that has events in its queue having an attempt
\* outstanding.
AllDispatched(w) ==
  \A name \in DOMAIN w.uploaders :
     w.uploaders[name].queue # <<>>
        => \E i \in DOMAIN w.requests[name] : w.requests[name][i].result = "pending"

\* The bodies the next inbound POST may carry.
Inbound == UNION {Bodies(next_id, n) : n \in {m \in 0..MaxBatch : next_id + m - 1 <= MaxEvents}}

C10_IntakeDispatch ==
  \A body \in Inbound :
     LET w == render_POST(World, body)
     IN  w.raised = "None" => AllDispatched(w)

\* C10, as claimed: every render_POST ends that way.
C10_EveryIntakeDispatches ==
  \A body \in Inbound : AllDispatched(render_POST(World, body))

\* Nothing but accepted POSTs has happened and every uploader has an attempt
\* outstanding.
C10_Witness ==
  /\ rejected = {}
  /\ failures = 0
  /\ \A name \in Names :
        /\ Outstanding(name) # {}
        /\ \A i \in DOMAIN requests[name] : requests[name][i].result = "pending"

\* C11, as amended. Intake acknowledgment and delivery: the attempt for the
\* events of an inbound POST is started inside render_POST, and it is still
\* outstanding when render_POST ends; no attempt completes inside render_POST,
\* so the failure of an attempt reaches deferred_errback after the inbound
\* POST was answered.
Started(name) == DOMAIN requests'[name] \ DOMAIN requests[name]

C12_EmptyFlushNoOp ==
  \A name \in Names :
     (queue(name) = <<>> /\ uploaders[name].deferred = None)
        => /\ run(World, name) = World
           /\ run(run(World, name), name) = World

\* Every uploader is empty and idle after a delivery, and the LoopingCall
\* still runs dispatch on them.
C12_Witness ==
  /\ looping
  /\ \E name \in Names : Delivered(name) # <<>>
  /\ \A name \in Names : queue(name) = <<>> /\ uploaders[name].deferred = None

\* C13. Independence of destinations: run, deferred_callback and
\* deferred_errback of one uploader leave every other uploader as it was, and
\* dispatch starts an attempt on every uploader that getPage accepts, has
\* events in its queue and no attempt in flight, whatever the state of the
\* other uploaders.
OthersUntouched(w, name) ==
  \A other \in Names \ {name} :
     /\ w.uploaders[other] = uploaders[other]
     /\ w.requests[other] = requests[other]

C13_Independence ==
  \A name \in Names :
     /\ OthersUntouched(run(World, name), name)
     /\ uploaders[name].deferred # None =>
           /\ OthersUntouched(deferred_callback(World, name), name)
           /\ OthersUntouched(deferred_errback(World, name), name)
     /\ (Accepted(name) /\ queue(name) # <<>> /\ uploaders[name].deferred = None)
           => Len(dispatch(World).requests[name]) = Len(requests[name]) + 1

\* C14. Hung attempt blocks its destination: in every step that leaves an
\* attempt outstanding, no other attempt is started for its uploader,
\* events_being_sent and deferred stay as they are, and the queue only grows
\* at its tail; so an uploader whose attempt never completes never posts again.
C14_HungAttemptBlocks ==
  [][\A name \in Names : \A i \in Outstanding(name) :
        requests'[name][i].result = "pending"
           => /\ requests'[name] = requests[name]
              /\ uploaders'[name].deferred = i
              /\ uploaders'[name].events_being_sent = Body(requests[name][i])
              /\ IsPrefix(queue(name), uploaders'[name].queue)]_vars

\* Two events have accumulated behind an attempt that is still outstanding.
C14_Witness ==
  /\ rejected = {}
  /\ \E name \in Names :
        /\ Outstanding(name) # {}
        /\ Len(queue(name)) = 2
        /\ Len(InFlight(name)) = 1

\* C15. Flush takes everything: run on an uploader with events in its queue
\* and no attempt in flight moves the whole queue, in order, into
\* events_being_sent, leaves the queue empty, and starts exactly one POST, to
\* the uploader's URL, whose body is that batch.
C15_FlushTakesEverything ==
  \A name \in Names :
     (queue(name) # <<>> /\ uploaders[name].deferred = None)
        => LET w == run(World, name)
               n == Len(requests[name]) + 1
           IN  /\ w.uploaders[name].events_being_sent = queue(name)
               /\ w.uploaders[name].queue = <<>>
               /\ DOMAIN w.requests[name] = 1..n
               /\ SubSeq(w.requests[name], 1, n - 1) = requests[name]
               /\ w.requests[name][n] = getPage(uploaders[name].url, json_dumps(queue(name)))
               /\ w.uploaders[name].deferred = n

\* C16. Success discards the batch: deferred_callback empties
\* events_being_sent, resets deferred, so that the next run posts the queue,
\* and leaves the queue as it is; an event of an answered batch is not in the
\* queue and in no later batch.
AfterSuccess(name) == deferred_callback(World, name)

C16_SuccessDiscardsBatch ==
  \A name \in Names :
     /\ uploaders[name].deferred # None =>
           /\ AfterSuccess(name).uploaders[name].events_being_sent = <<>>
           /\ AfterSuccess(name).uploaders[name].deferred = None
           /\ AfterSuccess(name).uploaders[name].queue = queue(name)
           /\ queue(name) # <<>> =>
                 Len(run(AfterSuccess(name), name).requests[name]) = Len(requests[name]) + 1
     /\ \A i \in DOMAIN requests[name] :
           requests[name][i].result = "ok" =>
              \A e \in Range(Body(requests[name][i])) :
                 /\ e \notin Range(queue(name))
                 /\ \A j \in DOMAIN requests[name] :
                       j > i => e \notin Range(Body(requests[name][j]))

\* A batch was delivered and the events enqueued during its attempt were
\* posted afterwards.
C16_Witness ==
  \E name \in Names :
     /\ Len(requests[name]) >= 2
     /\ requests[name][1].result = "ok"
     /\ Len(Body(requests[name][2])) = 2

\* C17. Nothing outside the queue without an attempt: whenever an uploader
\* has no attempt outstanding, every event enqueued for it that is in no
\* answered batch is in its queue.
C17_IdleMeansQueued ==
  \A name \in Names :
     Outstanding(name) = {} =>
        \A k \in DOMAIN enqueued[name] :
           enqueued[name][k] \in Range(Delivered(name)) \cup Range(queue(name))

\* C18. Enqueue during flight does not touch the batch: append on any
\* uploader, with or without an attempt in flight, only adds the event at the
\* tail of the queue; while an attempt is outstanding events_being_sent is the
\* body that run posted; and deferred_errback puts exactly that body back in
\* front of the queue.
Arriving(name) == {e \in {Event(next_id, shape) : shape \in Shapes} : get_uploader_name(e) = name}

C18_EnqueueLeavesBatch ==
  \A name \in Names :
     /\ \A e \in Arriving(name) :
           /\ append(uploaders[name], e) = [uploaders[name] EXCEPT !.queue = Append(@, e)]
           /\ add_event(World, e).raised = "None"
     /\ \A i \in Outstanding(name) :
           /\ uploaders[name].deferred = i
           /\ uploaders[name].events_being_sent = Body(requests[name][i])
           /\ deferred_errback(World, name).uploaders[name].queue
                 = Body(requests[name][i]) \o queue(name)

\* An event was enqueued while the attempt for another was outstanding, and
\* the attempt has failed: the queue holds the event sent, then the other.
C18_Witness ==
  \E name \in Names :
     /\ Len(requests[name]) = 1
     /\ requests[name][1].result = "error"
     /\ Len(Body(requests[name][1])) = 1
     /\ Len(queue(name)) = 2
     /\ IsPrefix(Body(requests[name][1]), queue(name))

\* C19. Exactly one outcome per attempt: the Deferred of an attempt that
\* succeeded has called deferred_callback once and nothing else, the Deferred
\* of one that failed deferred_errback once and nothing else, and one that is
\* outstanding has called nothing; a batch that was answered is not back in
\* the queue.
C19_ExactlyOneOutcome ==
  \A name \in Names : \A i \in DOMAIN requests[name] :
     LET r == requests[name][i]
     IN  /\ r.result = "pending" => r.called = <<>>
         /\ r.result = "ok" =>
               /\ r.called = <<"deferred_callback">>
               /\ Range(Body(r)) \cap Range(queue(name)) = {}
         /\ r.result = "error" => r.called = <<"deferred_errback">>

\* An attempt has failed and the next attempt of the uploader succeeded.
C19_Witness ==
  \E name \in Names :
     /\ Len(requests[name]) = 2
     /\ requests[name][1].result = "error"
     /\ requests[name][2].result = "ok"

====
